---- MODULE Spec2Model ----
(***************************************************************************)
(* Model of the finance tracker's budget accounting core:                  *)
(*   budget.py       Budget (limits / spent maps and the derived queries)  *)
(*   transaction.py  Transaction construction and validation               *)
(*   file_manager.py the JSON files of the transactions and the budget     *)
(*   finance_tracker.py  the handlers of the application                   *)
(*                                                                         *)
(* Money is an exact decimal counted in thousandths of a currency unit     *)
(* (1 = 0.001, 10 = one cent), so that amounts below one cent and the      *)
(* rounding to two decimals are both representable.  Strings are           *)
(* sequences of one-character strings.  A Python dict is a function whose  *)
(* DOMAIN is its key set.  An optional value (None or v) is <<>> or <<v>>. *)
(***************************************************************************)
EXTENDS Integers, Sequences, FiniteSets, TLC

VARIABLES limits, spent, last, negUsed, txn,
          data, shareL, shareS, other,
          transactions, txnFile, budgetFile

\* a dict handed out by to_dict or handed in to from_dict, and whether its
\* 'limits' / 'spent' value is the very dict object the Budget holds
\* other is a second Budget loaded from the same data object (None while
\* there is none): its limits and spent, and whether each is the dict
\* object data holds
snapVars == <<data, shareL, shareS, other>>

\* FinanceTracker.transactions and the two files of the FileManager
appVars == <<transactions, txnFile, budgetFile>>

vars == <<limits, spent, last, negUsed, txn, snapVars, appVars>>

(***************************************************************************)
(* Bounds of the model.                                                    *)
(***************************************************************************)
\* cap on the absolute value of a spent total, in cents
MaxSpentCents == 2

(***************************************************************************)
(* Input domains.                                                          *)
(***************************************************************************)
\* raw category strings: "a", " A " and "B"
Categories == {<<"a">>, <<" ", "A", " ">>, <<"B">>}

\* A Python argument handed to float(): a number, a string that is not a
\* number ("abc"), or None.
Num(v) == [kind |-> "num", val |-> v]

NotANumber == [kind |-> "str", val |-> 0]

NoneArg == [kind |-> "none", val |-> 0]

LimitArgs == {Num(v) : v \in {-10, 0, 4, 12}} \cup {NotANumber, NoneArg}

ExpenseArgs == {Num(v) : v \in {-10, 10, 20}} \cup {NotANumber}

(***************************************************************************)
(* Python built-ins used by the code.                                      *)
(***************************************************************************)
None == <<>>

Some(v) == <<v>>

Whitespace == {" "}

LowerChar(ch) == IF ch = "A" THEN "a" ELSE IF ch = "B" THEN "b" ELSE ch

lower(s) == [i \in 1..Len(s) |-> LowerChar(s[i])]

RECURSIVE lstrip(_)
lstrip(s) == IF s # <<>> /\ Head(s) \in Whitespace THEN lstrip(Tail(s)) ELSE s

RECURSIVE rstrip(_)
rstrip(s) ==
  IF s # <<>> /\ s[Len(s)] \in Whitespace
  THEN rstrip(SubSeq(s, 1, Len(s) - 1))
  ELSE s

strip(s) == rstrip(lstrip(s))

\* float(x): the value, or the exception float() raises.
Float(x) ==
  IF x.kind = "num" THEN [exc |-> "none", val |-> x.val]
  ELSE IF x.kind = "str" THEN [exc |-> "ValueError", val |-> 0]
  ELSE [exc |-> "TypeError", val |-> 0]

\* round(x, 2): the nearest multiple of one cent.  A value exactly between
\* two cents goes to either neighbour: which one Python picks depends on the
\* binary representation of the particular float, so both are outcomes.
round2(x) ==
  LET r == x % 10
      lo == x - r
  IN IF r < 5 THEN {lo}
     ELSE IF r > 5 THEN {lo + 10}
     ELSE {lo, lo + 10}

\* d[k] = v on a dict
Put(d, k, v) == [x \in (DOMAIN d) \cup {k} |-> IF x = k THEN v ELSE d[x]]

\* d.get(k, default)
Get(d, k, default) == IF k \in DOMAIN d THEN d[k] ELSE default

EmptyDict == <<>>

(***************************************************************************)
(* Budget                                                                  *)
(***************************************************************************)
\* a normalization that forgets .lower()
normalize_NoLower(category) == strip(category)

\* category.strip().lower()
normalize(category) == lower(strip(category))

\* the record of the call a step performed: its arguments, the exception it
\* raised ("none" when it returned), and spent.get(c) as it was before it
Call(op, category, arg, raised) ==
  [op |-> op, category |-> category, arg |-> arg, raised |-> raised,
   start |-> IF normalize(category) \in DOMAIN spent
             THEN Some(spent[normalize(category)]) ELSE None]

NoCall ==
  [op |-> "init", category |-> <<>>, arg |-> NoneArg, raised |-> "none",
   start |-> None]

\* a validation that lets a zero limit through
LimitRejected_ZeroAccepted(f) == f.exc # "none" \/ f.val < 0

\* the try block of set_limit raises: float() failed, or limit <= 0
LimitRejected(f) == f.exc # "none" \/ f.val <= 0

\* self.limits[category] = round(limit, 2), for the rounded value r
StoreLimit(lim, c, r) == Put(lim, c, r)

\* a seeding that resets an existing total
SeedSpent_Reset(sp, c) == Put(sp, c, 0)

\* if category not in self.spent: self.spent[category] = 0.0
SeedSpent(sp, c) == IF c \notin DOMAIN sp THEN Put(sp, c, 0) ELSE sp

\* an accumulation that overwrites the total
Accumulate_Overwrite(sp, c, amount) == Put(sp, c, amount)

\* an accumulation that subtracts
Accumulate_Subtract(sp, c, amount) == Put(sp, c, sp[c] - amount)

\* self.spent[category] += amount
Accumulate(sp, c, amount) == Put(sp, c, sp[c] + amount)

\* the Budget changes its dicts in place (self.limits[category] = ...,
\* self.spent[category] += ...): a data object holding the same dict object
\* shows the change
WriteThrough ==
  /\ data' = IF data = None THEN None
             ELSE Some([k \in DOMAIN data[1] |->
                          IF k = "limits" /\ shareL THEN limits'
                          ELSE IF k = "spent" /\ shareS THEN spent'
                          ELSE data[1][k]])
  /\ other' = IF other = None THEN None
              ELSE Some([other[1] EXCEPT
                           !.limits = IF shareL /\ other[1].sameLimits
                                      THEN limits' ELSE @,
                           !.spent = IF shareS /\ other[1].sameSpent
                                     THEN spent' ELSE @])
  /\ UNCHANGED <<shareL, shareS>>

set_limit(category, limit) ==
  LET c == normalize(category)
      f == Float(limit)
  IN IF LimitRejected(f)
     THEN /\ last' = Call("set_limit", category, limit, "ValueError")
          /\ UNCHANGED <<limits, spent, negUsed, txn, snapVars, appVars>>
     ELSE \E r \in round2(f.val) :
            /\ limits' = StoreLimit(limits, c, r)
            /\ spent' = SeedSpent(spent, c)
            /\ last' = Call("set_limit", category, limit, "none")
            /\ UNCHANGED <<negUsed, txn, appVars>>
            /\ WriteThrough

add_expense(category, amount) ==
  LET c == normalize(category)
      f == Float(amount)
  IN IF f.exc # "none"
     THEN /\ last' = Call("add_expense", category, amount, f.exc)
          /\ UNCHANGED <<limits, spent, negUsed, txn, snapVars, appVars>>
     ELSE LET sp == Accumulate(SeedSpent(spent, c), c, f.val)
          IN /\ sp[c] <= MaxSpentCents * 10
             /\ sp[c] >= 0 - MaxSpentCents * 10
             /\ spent' = sp
             /\ last' = Call("add_expense", category, amount, "none")
             /\ negUsed' = (negUsed \/ f.val < 0)
             /\ UNCHANGED <<limits, txn, appVars>>
             /\ WriteThrough

\* a lookup that answers 0 for a category with no limit
get_remaining_ZeroWhenAbsent(category) ==
  LET c == normalize(category)
  IN Some(Get(limits, c, 0) - Get(spent, c, 0))

get_remaining(category) ==
  LET c == normalize(category)
  IN IF c \notin DOMAIN limits THEN None
     ELSE Some(limits[c] - Get(spent, c, 0))

\* a comparison that counts an exactly used-up budget as over
is_over_budget_AtLimit(category) ==
  LET remaining == get_remaining(category)
  IN IF remaining = None THEN FALSE ELSE remaining[1] <= 0

is_over_budget(category) ==
  LET remaining == get_remaining(category)
  IN IF remaining = None THEN FALSE ELSE remaining[1] < 0

\* percentage is the exact quotient num / den
get_status(category) ==
  LET c == normalize(category)
  IN IF c \notin DOMAIN limits THEN None
     ELSE LET limit == limits[c]
              sp == Get(spent, c, 0)
              remaining == limit - sp
              percentage == IF limit > 0
                            THEN [num |-> sp * 100, den |-> limit]
                            ELSE [num |-> 0, den |-> 1]
          IN Some([category |-> c, limit |-> limit, spent |-> sp,
                   remaining |-> remaining, percentage |-> percentage,
                   over_budget |-> remaining < 0])

\* the code point of a character of the model's alphabet
CharCode(ch) ==
  IF ch = " " THEN 32
  ELSE IF ch = "A" THEN 65
  ELSE IF ch = "B" THEN 66
  ELSE IF ch = "a" THEN 97
  ELSE IF ch = "b" THEN 98
  ELSE 122

\* s < t for Python strings: code point by code point, a proper prefix first
RECURSIVE StrLess(_, _)
StrLess(s, t) ==
  IF t = <<>> THEN FALSE
  ELSE IF s = <<>> THEN TRUE
  ELSE IF Head(s) # Head(t) THEN CharCode(Head(s)) < CharCode(Head(t))
  ELSE StrLess(Tail(s), Tail(t))

\* an ordering that puts the largest key first
RECURSIVE sorted_Descending(_)
sorted_Descending(keys) ==
  IF keys = {} THEN <<>>
  ELSE LET m == CHOOSE x \in keys : \A y \in keys \ {x} : StrLess(y, x)
       IN <<m>> \o sorted_Descending(keys \ {m})

\* sorted(self.limits.keys())
RECURSIVE sorted(_)
sorted(keys) ==
  IF keys = {} THEN <<>>
  ELSE LET m == CHOOSE x \in keys : \A y \in keys \ {x} : StrLess(x, y)
       IN <<m>> \o sorted(keys \ {m})

get_budget_report ==
  LET order == sorted(DOMAIN limits)
      statuses == [i \in 1..Len(order) |-> get_status(order[i])]
      Truthy(status) == status # None
      kept == SelectSeq(statuses, Truthy)
  IN [i \in 1..Len(kept) |-> kept[i][1]]

\* a snapshot that leaves the spent totals out
to_dict_LimitsOnly ==
  [obj |-> [k \in {"limits"} |-> limits],
   sameLimits |-> FALSE, sameSpent |-> FALSE]

\* a snapshot that hands out the Budget's own dicts
to_dict_NoCopy ==
  [obj |-> [k \in {"limits", "spent"} |->
              IF k = "limits" THEN limits ELSE spent],
   sameLimits |-> TRUE, sameSpent |-> TRUE]

\* the dict to_dict returns; .copy() makes its two values new dict objects
to_dict ==
  [obj |-> [k \in {"limits", "spent"} |->
              IF k = "limits" THEN limits ELSE spent],
   sameLimits |-> FALSE, sameSpent |-> FALSE]

\* a load that keeps the entries the Budget already has
from_dict_Merge(d) ==
  [limits |-> [k \in (DOMAIN limits) \cup DOMAIN Get(d, "limits", EmptyDict) |->
                 Get(Get(d, "limits", EmptyDict), k, Get(limits, k, 0))],
   spent |-> [k \in (DOMAIN spent) \cup DOMAIN Get(d, "spent", EmptyDict) |->
                 Get(Get(d, "spent", EmptyDict), k, Get(spent, k, 0))],
   sameLimits |-> FALSE, sameSpent |-> FALSE]

\* the limits and spent of the Budget after from_dict(d): data.get(key, {})
\* is the dict object d holds, or a new empty dict when d lacks the key
from_dict(d) ==
  [limits |-> Get(d, "limits", EmptyDict),
   spent |-> Get(d, "spent", EmptyDict),
   sameLimits |-> "limits" \in DOMAIN d,
   sameSpent |-> "spent" \in DOMAIN d]

\* no data object has been handed out or in
NoSnapshot ==
  /\ data = None
  /\ shareL = FALSE
  /\ shareS = FALSE
  /\ other = None

\* no FinanceTracker: an empty list and no files
NoTracker ==
  /\ transactions = <<>>
  /\ txnFile = None
  /\ budgetFile = None

Init ==
  /\ limits = EmptyDict
  /\ spent = EmptyDict
  /\ last = NoCall
  /\ negUsed = FALSE
  /\ txn = None
  /\ NoSnapshot
  /\ NoTracker

SetLimit == \E category \in Categories, limit \in LimitArgs : set_limit(category, limit)

AddExpense == \E category \in Categories, amount \in ExpenseArgs : add_expense(category, amount)

Next == SetLimit \/ AddExpense

Spec == Init /\ [][Next]_vars

(***************************************************************************)
(* Properties of Budget, checked under Spec                                *)
(***************************************************************************)
\* c = the normalized category of the call a step performed
LastKey == normalize(last.category)

AllKeys == (DOMAIN limits) \cup (DOMAIN spent)

\* r is x rounded to two decimals: a whole number of cents nearest to x
IsRounded2(x, r) == r % 10 = 0 /\ r - x <= 5 /\ x - r <= 5

\* the entry of key k is the same in dicts d and e
SameEntry(d, e, k) ==
  /\ (k \in DOMAIN d) = (k \in DOMAIN e)
  /\ k \in DOMAIN d => d[k] = e[k]

\* a step leaves the limits and spent entries of every key but c alone
OthersUnchanged(c) ==
  \A k \in (AllKeys \cup (DOMAIN limits') \cup (DOMAIN spent')) \ {c} :
    /\ SameEntry(limits, limits', k)
    /\ SameEntry(spent, spent', k)

\* C1: every value stored in limits is strictly greater than 0, so that
\* get_status never takes its zero-limit branch.
C1_LimitsPositive ==
  /\ \A c \in DOMAIN limits : limits[c] > 0
  /\ \A category \in Categories :
       get_status(category) # None => get_status(category)[1].limit > 0

\* C3: a set_limit call whose limit is non-numeric, zero or negative raises
\* ValueError and leaves limits and spent exactly as they were.
C3_FailedSetLimitNoMutation ==
  [][ (last'.op = "set_limit" /\ (last'.arg.kind # "num" \/ last'.arg.val <= 0))
      => /\ last'.raised = "ValueError"
         /\ limits' = limits
         /\ spent' = spent ]_vars

\* C3 witness: set_limit has just failed on a Budget that holds limits and
\* spending
C3_Witness ==
  /\ last.op = "set_limit"
  /\ last.raised = "ValueError"
  /\ last.arg = Num(-10)
  /\ limits # EmptyDict
  /\ \E k \in DOMAIN spent : spent[k] > 0

\* C4: a successful set_limit stores the limit rounded to 2 decimals under
\* the normalized category c, sets spent[c] to 0 only if c had no spent
\* entry, keeps an existing spent[c], and leaves every other entry alone.
C4_SetLimitEffect ==
  [][ (last'.op = "set_limit" /\ last'.raised = "none")
      => LET c == normalize(last'.category)
         IN /\ c \in DOMAIN limits'
            /\ IsRounded2(last'.arg.val, limits'[c])
            /\ c \in DOMAIN spent'
            /\ c \notin DOMAIN spent => spent'[c] = 0
            /\ c \in DOMAIN spent => spent'[c] = spent[c]
            /\ OthersUnchanged(c) ]_vars

\* C4 witness: set_limit has just succeeded on a category that already had
\* spending, which is still there, while another category holds entries
C4_Witness ==
  /\ last.op = "set_limit"
  /\ last.raised = "none"
  /\ last.start # None
  /\ last.start[1] > 0
  /\ spent[LastKey] = last.start[1]
  /\ IsRounded2(last.arg.val, limits[LastKey])
  /\ \E k \in (DOMAIN limits) \ {LastKey} : spent[k] # 0

\* C5: add_expense with a number succeeds with or without a limit on c, adds
\* the amount to spent[c] (0 if absent), changes neither limits nor any other
\* spent entry; two calls in a row on c, with a then b, leave spent[c] at the
\* value it had before the first call plus a + b.
C5_AddExpenseAdditive ==
  [][ (last'.op = "add_expense" /\ last'.arg.kind = "num")
      => LET c == normalize(last'.category)
             b == last'.arg.val
         IN /\ last'.raised = "none"
            /\ limits' = limits
            /\ c \in DOMAIN spent'
            /\ spent'[c] = (IF c \in DOMAIN spent THEN spent[c] ELSE 0) + b
            /\ OthersUnchanged(c)
            /\ (last.op = "add_expense" /\ last.raised = "none"
                  /\ normalize(last.category) = c)
               => spent'[c] = (IF last.start = None THEN 0 ELSE last.start[1])
                                + (last.arg.val + b) ]_vars

\* C5 witness: add_expense has just added to a category that has no limit
\* and already had a non-zero total, while another category holds a limit
C5_Witness ==
  /\ last.op = "add_expense"
  /\ last.raised = "none"
  /\ LastKey \notin DOMAIN limits
  /\ last.start # None
  /\ last.start[1] # 0
  /\ spent[LastKey] = last.start[1] + last.arg.val
  /\ limits # EmptyDict

\* get_remaining is None exactly for a category with no limit, and limit
\* minus spent otherwise
RemainingIsLimitMinusSpent ==
  \A category \in Categories :
    LET c == normalize(category)
    IN IF c \notin DOMAIN limits
       THEN get_remaining(category) = None
       ELSE /\ c \in DOMAIN spent
            /\ get_remaining(category) = Some(limits[c] - spent[c])

\* set_limit has just succeeded on a category with nothing spent
FreshLimit ==
  /\ last.op = "set_limit"
  /\ last.raised = "none"
  /\ spent[LastKey] = 0

\* C6 as stated: get_remaining is None exactly without a limit, else limit
\* minus spent, and right after set_limit(c, L) with nothing spent on c it
\* is exactly L.
C6_Original ==
  /\ RemainingIsLimitMinusSpent
  /\ FreshLimit => get_remaining(last.category) = Some(last.arg.val)

\* C6 as amended: get_remaining is None exactly without a limit, else limit
\* minus spent, and right after set_limit(c, L) with nothing spent on c it
\* is L rounded to 2 decimals.
C6_RemainingRounded ==
  /\ RemainingIsLimitMinusSpent
  /\ FreshLimit =>
       /\ get_remaining(last.category) # None
       /\ IsRounded2(last.arg.val, get_remaining(last.category)[1])

\* C6 witness: set_limit(c, 0.012) has just succeeded with nothing spent on
\* c and get_remaining answers 0.01, while another category has spending,
\* no limit and None as its answer
C6_Witness ==
  /\ FreshLimit
  /\ last.arg = Num(12)
  /\ get_remaining(last.category) = Some(10)
  /\ \E category \in Categories :
       /\ get_remaining(category) = None
       /\ normalize(category) \in DOMAIN spent
       /\ spent[normalize(category)] > 0

\* C7: is_over_budget is true exactly when the category has a limit and
\* spent exceeds it, that is when get_remaining is defined and negative;
\* false without a limit and false at spent = limit.
C7_OverBudgetIffExceeded ==
  \A category \in Categories :
    LET c == normalize(category)
        remaining == get_remaining(category)
    IN /\ is_over_budget(category)
           = (c \in DOMAIN limits /\ c \in DOMAIN spent /\ spent[c] > limits[c])
       /\ is_over_budget(category) = (remaining # None /\ remaining[1] < 0)
       /\ c \notin DOMAIN limits => ~is_over_budget(category)
       /\ (c \in DOMAIN limits /\ spent[c] = limits[c]) => ~is_over_budget(category)

\* C7 witness: one category is over its limit and another has spending but
\* no limit and is not over budget
C7_Witness ==
  \E c1, c2 \in Categories :
    /\ is_over_budget(c1)
    /\ limits[normalize(c1)] > 0
    /\ normalize(c2) \notin DOMAIN limits
    /\ normalize(c2) \in DOMAIN spent
    /\ spent[normalize(c2)] > 0
    /\ ~is_over_budget(c2)

\* C8: get_status is None without a limit; otherwise its limit and spent are
\* the stored values, remaining = limit - spent = get_remaining, percentage
\* = spent / limit * 100, and over_budget = (remaining < 0) = is_over_budget.
C8_StatusRecord ==
  \A category \in Categories :
    LET c == normalize(category)
        st == get_status(category)[1]
    IN IF c \notin DOMAIN limits
       THEN get_status(category) = None
       ELSE /\ get_status(category) # None
            /\ st.limit = limits[c]
            /\ st.spent = spent[c]
            /\ st.remaining = st.limit - st.spent
            /\ Some(st.remaining) = get_remaining(category)
            /\ st.percentage.num * st.limit = st.spent * 100 * st.percentage.den
            /\ st.over_budget = (st.remaining < 0)
            /\ st.over_budget = is_over_budget(category)

\* C9 as stated: every value in spent is >= 0, and no call makes a spent
\* value smaller than it was.
C9_Original ==
  /\ [](\A k \in DOMAIN spent : spent[k] >= 0)
  /\ [][\A k \in DOMAIN spent : k \in DOMAIN spent' /\ spent'[k] >= spent[k]]_vars

\* C9 as amended: as long as no add_expense call has had a negative amount
\* every value in spent is >= 0, and no set_limit call and no add_expense
\* call with an amount >= 0 makes a spent value smaller than it was.
C9_SpentMonotoneNonNegative ==
  /\ [](~negUsed => \A k \in DOMAIN spent : spent[k] >= 0)
  /\ [][ (last'.op = "set_limit"
            \/ (last'.op = "add_expense"
                  /\ (last'.arg.kind # "num" \/ last'.arg.val >= 0)))
         => \A k \in DOMAIN spent : k \in DOMAIN spent' /\ spent'[k] >= spent[k]
     ]_vars

\* C9 witness: add_expense has just raised a total that was already above 0,
\* and no negative amount has been used
C9_Witness ==
  /\ ~negUsed
  /\ last.op = "add_expense"
  /\ last.raised = "none"
  /\ last.start # None
  /\ last.start[1] > 0
  /\ spent[LastKey] > last.start[1]

UpperChars == {"A", "B"}

IsTrimmed(k) == k = <<>> \/ (k[1] \notin Whitespace /\ k[Len(k)] \notin Whitespace)

IsLowerCase(k) == \A i \in 1..Len(k) : k[i] \notin UpperChars

\* k is the trimmed, lower-cased form of raw: raw is k's letters, in either
\* case, with only whitespace before and after
NormalFormOf(raw, k) ==
  /\ IsTrimmed(k)
  /\ \E i \in 1..(Len(raw) + 1) :
       /\ i + Len(k) - 1 <= Len(raw)
       /\ \A p \in 1..Len(raw) :
            IF p >= i /\ p < i + Len(k)
            THEN k[p - i + 1] = LowerChar(raw[p])
            ELSE raw[p] \in Whitespace

\* two raw strings name the same category
SameCategory(c1, c2) ==
  \E i \in 1..(Len(c1) + 1), n \in 0..Len(c1) :
    /\ i + n - 1 <= Len(c1)
    /\ LET k == [p \in 1..n |-> LowerChar(c1[i + p - 1])]
       IN NormalFormOf(c1, k) /\ NormalFormOf(c2, k)

\* C10: every key of limits and spent is trimmed and lower-case; the three
\* lookups answer alike for two strings that name the same category; and a
\* set_limit or add_expense call touches only the entries whose key is the
\* trimmed, lower-cased form of the string it was given.
C10_NormalizedEverywhere ==
  /\ [](/\ \A k \in AllKeys : IsTrimmed(k) /\ IsLowerCase(k)
        /\ \A c1, c2 \in Categories :
             SameCategory(c1, c2) =>
               /\ get_remaining(c1) = get_remaining(c2)
               /\ is_over_budget(c1) = is_over_budget(c2)
               /\ get_status(c1) = get_status(c2))
  /\ [][ (last'.op \in {"set_limit", "add_expense"} /\ last'.raised = "none")
         => /\ \E k \in DOMAIN spent' : NormalFormOf(last'.category, k)
            /\ last'.op = "set_limit" =>
                 \E k \in DOMAIN limits' : NormalFormOf(last'.category, k)
            /\ \A k \in AllKeys \cup (DOMAIN limits') \cup (DOMAIN spent') :
                 (~SameEntry(limits, limits', k) \/ ~SameEntry(spent, spent', k))
                   => NormalFormOf(last'.category, k) ]_vars

\* C10 witness: add_expense(" A ", ...) has just added to the entry "a" that
\* set_limit created, and the lookups see that entry under "a" and " A "
C10_Witness ==
  /\ last.op = "add_expense"
  /\ last.raised = "none"
  /\ last.category = <<" ", "A", " ">>
  /\ <<"a">> \in DOMAIN limits
  /\ spent[<<"a">>] = last.start[1] + last.arg.val
  /\ get_status(<<"a">>) # None
  /\ get_status(<<"a">>) = get_status(<<" ", "A", " ">>)
  /\ SameCategory(<<"a">>, <<" ", "A", " ">>)
  /\ ~SameCategory(<<"a">>, <<"B">>)

(***************************************************************************)
(* Transaction                                                             *)
(***************************************************************************)
Digits == {"0", "1", "2", "3", "4", "5", "6", "7", "8", "9"}

DigitVal(ch) ==
  CASE ch = "0" -> 0 [] ch = "1" -> 1 [] ch = "2" -> 2 [] ch = "3" -> 3
    [] ch = "4" -> 4 [] ch = "5" -> 5 [] ch = "6" -> 6 [] ch = "7" -> 7
    [] ch = "8" -> 8 [] ch = "9" -> 9

\* re.match(r'^\d{4}-(0[1-9]|1[0-2])-(0[1-9]|[12]\d|3[01])$', date);
\* $ also matches just before a final newline
PatternMatches(date) ==
  /\ Len(date) = 10 \/ (Len(date) = 11 /\ date[11] = "\n")
  /\ \A i \in 1..4 : date[i] \in Digits
  /\ date[5] = "-"
  /\ \/ date[6] = "0" /\ date[7] \in Digits \ {"0"}
     \/ date[6] = "1" /\ date[7] \in {"0", "1", "2"}
  /\ date[8] = "-"
  /\ \/ date[9] = "0" /\ date[10] \in Digits \ {"0"}
     \/ date[9] \in {"1", "2"} /\ date[10] \in Digits
     \/ date[9] = "3" /\ date[10] \in {"0", "1"}

\* a leap year rule that forgets the centuries
IsLeap_EveryFourth(y) == y % 4 = 0

IsLeap(y) == (y % 4 = 0 /\ y % 100 # 0) \/ y % 400 = 0

DaysInMonth(y, m) ==
  IF m = 2 THEN (IF IsLeap(y) THEN 29 ELSE 28)
  ELSE IF m \in {4, 6, 9, 11} THEN 30
  ELSE 31

\* datetime.strptime(date, '%Y-%m-%d') returns (does not raise), for a
\* string the pattern has matched: nothing may follow the day, and the
\* fields must name a date datetime can hold (year 1 or later)
StrptimeOk(date) ==
  LET y == DigitVal(date[1]) * 1000 + DigitVal(date[2]) * 100
             + DigitVal(date[3]) * 10 + DigitVal(date[4])
      m == DigitVal(date[6]) * 10 + DigitVal(date[7])
      d == DigitVal(date[9]) * 10 + DigitVal(date[10])
  IN /\ Len(date) = 10
     /\ y >= 1
     /\ d <= DaysInMonth(y, m)

\* validate_date returns date (TRUE) or raises ValueError (FALSE)
validate_date(date) == PatternMatches(date) /\ StrptimeOk(date)

\* a validation that lets a zero amount through
AmountRejected_ZeroAccepted(f) == f.exc # "none" \/ f.val < 0

\* the try block of validate_amount raises: float() failed, or amount <= 0
AmountRejected(f) == f.exc # "none" \/ f.val <= 0

\* validate_amount: the set of values it can return; empty when it raises
validate_amount(amount) ==
  LET f == Float(amount)
  IN IF AmountRejected(f) THEN {} ELSE round2(f.val)

\* a constructor that forgets to trim and lower-case
Transaction_AsGiven(date, amount, category, description) ==
  IF ~validate_date(date) THEN {}
  ELSE {[date |-> date, amount |-> a, category |-> category,
         description |-> description, transaction_id |-> None] :
        a \in validate_amount(amount)}

\* Transaction.__init__ reached through Income(...) or Expense(...): the
\* objects it can produce; empty when it raises ValueError
Transaction(date, amount, category, description) ==
  IF ~validate_date(date) THEN {}
  ELSE {[date |-> date, amount |-> a, category |-> lower(strip(category)),
         description |-> strip(description), transaction_id |-> None] :
        a \in validate_amount(amount)}

\* the validator whose ValueError ends Transaction.__init__: validate_date
\* runs first, validate_amount second; "none" when neither raises
RaisedBy(date, amount) ==
  IF ~validate_date(date) THEN "validate_date"
  ELSE IF validate_amount(amount) = {} THEN "validate_amount"
  ELSE "none"

\* a call of a constructor that has not run yet
Pending(args) == [args |-> args, raised |-> "pending", by |-> "none", obj |-> None]

\* Income(...) / Expense(...): both only call Transaction.__init__
Construct(cls) ==
  /\ txn # None
  /\ txn[1].raised = "pending"
  /\ txn[1].args.cls = cls
  /\ LET args == txn[1].args
         made == Transaction(args.date, args.amount, args.category,
                             args.description)
     IN \/ /\ made = {}
           /\ txn' = Some([args |-> args, raised |-> "ValueError",
                           by |-> RaisedBy(args.date, args.amount),
                           obj |-> None])
        \/ \E t \in made :
             txn' = Some([args |-> args, raised |-> "none", by |-> "none",
                          obj |-> Some(t)])
  /\ UNCHANGED <<limits, spent, last, negUsed, snapVars, appVars>>

\* date strings: 2024-02-29, 2023-02-29, 2024-02-30, 2024-13-01,
\* 11/01/2024, 2024-1-05, 0000-01-01, 2024-12-31, 2024-12-31 with a
\* newline after it, 1900-02-29, 2000-02-29, 2024-04-31, 2024-00-10,
\* 2024-01-00, 2024-01-32 and 2024/01/01
Dates ==
  { <<"2","0","2","4","-","0","2","-","2","9">>,
    <<"2","0","2","3","-","0","2","-","2","9">>,
    <<"2","0","2","4","-","0","2","-","3","0">>,
    <<"2","0","2","4","-","1","3","-","0","1">>,
    <<"1","1","/","0","1","/","2","0","2","4">>,
    <<"2","0","2","4","-","1","-","0","5">>,
    <<"0","0","0","0","-","0","1","-","0","1">>,
    <<"2","0","2","4","-","1","2","-","3","1">>,
    <<"2","0","2","4","-","1","2","-","3","1","\n">>,
    <<"1","9","0","0","-","0","2","-","2","9">>,
    <<"2","0","0","0","-","0","2","-","2","9">>,
    <<"2","0","2","4","-","0","4","-","3","1">>,
    <<"2","0","2","4","-","0","0","-","1","0">>,
    <<"2","0","2","4","-","0","1","-","0","0">>,
    <<"2","0","2","4","-","0","1","-","3","2">>,
    <<"2","0","2","4","/","0","1","/","0","1">> }

AmountArgs ==
  {Num(v) : v \in {-10, 0, 4, 12, 15, 1000}} \cup {NotANumber, NoneArg}

\* raw category strings: "a", " A ", " " and ""
TxnCategories == {<<"a">>, <<" ", "A", " ">>, <<" ">>, <<>>}

\* raw descriptions: "", " a" and "A a "
Descriptions == {<<>>, <<" ", "a">>, <<"A", " ", "a", " ">>}

TxnArgs ==
  [cls : {"Income", "Expense"}, date : Dates, amount : AmountArgs,
   category : TxnCategories, description : Descriptions]

NewIncome == Construct("Income")

NewExpense == Construct("Expense")

TxnInit ==
  /\ limits = EmptyDict
  /\ spent = EmptyDict
  /\ last = NoCall
  /\ negUsed = FALSE
  /\ txn \in {Some(Pending(args)) : args \in TxnArgs}
  /\ NoSnapshot
  /\ NoTracker

TxnNext == NewIncome \/ NewExpense

TxnSpec == TxnInit /\ [][TxnNext]_vars

(***************************************************************************)
(* Properties of Transaction, checked under TxnSpec                        *)
(***************************************************************************)
\* C2: every Transaction whose construction succeeds has a stored amount
\* strictly greater than 0, also for an input below one cent.
C2_StoredAmountPositive ==
  (txn[1].raised = "none") => (txn[1].obj[1].amount > 0)

(***************************************************************************)
(* Budget snapshots: to_dict, a caller editing the dict it got, from_dict. *)
(***************************************************************************)
\* a call that has no category and no amount
Plain(op) ==
  [op |-> op, category |-> <<>>, arg |-> NoneArg, raised |-> "none",
   start |-> None]

\* del d[k]
Del(d, k) == [x \in (DOMAIN d) \ {k} |-> d[x]]

SnapCategories == {<<"a">>, <<"B">>}

SnapLimitArgs == {Num(12), Num(0)}

SnapExpenseArgs == {Num(10)}

\* keys and values a caller writes into a dict it holds
EditKeys == {<<"a">>, <<"z">>}

EditValues == {990}

\* the dict after one statement of the caller: d[k] = v (a new or a changed
\* entry) or del d[k]
EditedDicts(d) ==
  {Put(d, k, v) : k \in EditKeys, v \in EditValues}
    \cup {Del(d, k) : k \in DOMAIN d}

\* data = budget.to_dict()
ToDict ==
  /\ data' = Some(to_dict.obj)
  /\ shareL' = to_dict.sameLimits
  /\ shareS' = to_dict.sameSpent
  /\ last' = Plain("to_dict")
  /\ UNCHANGED <<limits, spent, negUsed, txn, other, appVars>>

\* the caller edits data['limits'] or data['spent']; a dict object the
\* Budget holds as well changes for the Budget too
EditSnapshot ==
  /\ data # None
  /\ \E field \in DOMAIN data[1] :
       \E d \in EditedDicts(data[1][field]) :
         /\ data' = Some([data[1] EXCEPT ![field] = d])
         /\ limits' = IF field = "limits" /\ shareL THEN d ELSE limits
         /\ spent' = IF field = "spent" /\ shareS THEN d ELSE spent
         /\ other' = IF other = None THEN None
                     ELSE Some([other[1] EXCEPT
                                  !.limits = IF field = "limits" /\ other[1].sameLimits
                                             THEN d ELSE @,
                                  !.spent = IF field = "spent" /\ other[1].sameSpent
                                            THEN d ELSE @])
  /\ last' = Plain("edit_snapshot")
  /\ UNCHANGED <<shareL, shareS, negUsed, txn, appVars>>

SnapSetLimit ==
  \E category \in SnapCategories, limit \in SnapLimitArgs : set_limit(category, limit)

SnapAddExpense ==
  \E category \in SnapCategories, amount \in SnapExpenseArgs : add_expense(category, amount)

SnapNext == SnapSetLimit \/ SnapAddExpense \/ ToDict \/ EditSnapshot

SnapSpec == Init /\ [][SnapNext]_vars

\* {k1: v1}, {k1: v1, k2: v2}
Dict1(k1, v1) == Put(EmptyDict, k1, v1)

Dict2(k1, v1, k2, v2) == Put(Dict1(k1, v1), k2, v2)

\* data objects a caller passes to from_dict: an empty dict, one without
\* 'spent', one without 'limits', a regular snapshot, and hand-edited ones
\* with a negative and with a zero limit
ExternalData ==
  { EmptyDict,
    Dict1("limits", Dict1(<<"a">>, -10)),
    Dict1("spent", Dict1(<<"b">>, 10)),
    Dict2("limits", Dict1(<<"b">>, 10), "spent", Dict1(<<"b">>, 0)),
    Dict2("limits", Dict1(<<"a">>, -10), "spent", Dict1(<<"a">>, 10)),
    Dict2("limits", Dict2(<<"a">>, 0, <<"b">>, 10),
          "spent", Dict2(<<"a">>, 10, <<"b">>, 20)) }

LoadCategories == {<<"a">>, <<"B">>}

LoadLimitArgs == {Num(12)}

LoadExpenseArgs == {Num(10)}

\* the caller builds a data object (parsed from a file, or written by
\* hand) and lets go of a second Budget loaded from the previous one
MakeData ==
  /\ \E d \in ExternalData : data' = Some(d)
  /\ shareL' = FALSE
  /\ shareS' = FALSE
  /\ other' = None
  /\ last' = Plain("make_data")
  /\ UNCHANGED <<limits, spent, negUsed, txn, appVars>>

\* budget.from_dict(data)
FromDict ==
  /\ data # None
  /\ limits' = from_dict(data[1]).limits
  /\ spent' = from_dict(data[1]).spent
  /\ shareL' = from_dict(data[1]).sameLimits
  /\ shareS' = from_dict(data[1]).sameSpent
  /\ last' = Plain("from_dict")
  /\ UNCHANGED <<data, other, negUsed, txn, appVars>>

LoadSetLimit ==
  \E category \in LoadCategories, limit \in LoadLimitArgs : set_limit(category, limit)

LoadAddExpense ==
  \E category \in LoadCategories, amount \in LoadExpenseArgs : add_expense(category, amount)

LoadNext == LoadSetLimit \/ LoadAddExpense \/ MakeData \/ FromDict

LoadSpec == Init /\ [][LoadNext]_vars

(***************************************************************************)
(* Two Budgets loaded from one data object.                                *)
(***************************************************************************)
OtherCategories == {<<"a">>}

OtherLimitArgs == {Num(12), Num(0)}

OtherExpenseArgs == {Num(10)}

\* the record of a call on the second Budget
OtherCall(op, raised) == [Plain(op) EXCEPT !.raised = raised]

\* other = Budget(); other.from_dict(data)
FromDictOther ==
  /\ data # None
  /\ other' = Some(from_dict(data[1]))
  /\ last' = Plain("other.from_dict")
  /\ UNCHANGED <<limits, spent, data, shareL, shareS, negUsed, txn, appVars>>

\* the second Budget changes its dicts in place to lim and sp: the data
\* object, and through it the first Budget, show the change of a dict
\* object they hold as well
OtherWrites(lim, sp) ==
  /\ other' = Some([other[1] EXCEPT !.limits = lim, !.spent = sp])
  /\ data' = Some([k \in DOMAIN data[1] |->
                     IF k = "limits" /\ other[1].sameLimits THEN lim
                     ELSE IF k = "spent" /\ other[1].sameSpent THEN sp
                     ELSE data[1][k]])
  /\ limits' = IF shareL /\ other[1].sameLimits THEN lim ELSE limits
  /\ spent' = IF shareS /\ other[1].sameSpent THEN sp ELSE spent
  /\ UNCHANGED <<shareL, shareS>>

\* other.set_limit(category, limit)
OtherSetLimit ==
  /\ other # None
  /\ \E category \in OtherCategories, limit \in OtherLimitArgs :
       LET c == normalize(category)
           f == Float(limit)
       IN IF LimitRejected(f)
          THEN /\ last' = OtherCall("other.set_limit", "ValueError")
               /\ UNCHANGED <<limits, spent, snapVars>>
          ELSE \E r \in round2(f.val) :
                 /\ OtherWrites(StoreLimit(other[1].limits, c, r),
                                SeedSpent(other[1].spent, c))
                 /\ last' = OtherCall("other.set_limit", "none")
  /\ UNCHANGED <<negUsed, txn, appVars>>

\* other.add_expense(category, amount)
OtherAddExpense ==
  /\ other # None
  /\ \E category \in OtherCategories, amount \in OtherExpenseArgs :
       LET c == normalize(category)
           f == Float(amount)
       IN IF f.exc # "none"
          THEN /\ last' = OtherCall("other.add_expense", f.exc)
               /\ UNCHANGED <<limits, spent, snapVars>>
          ELSE LET sp == Accumulate(SeedSpent(other[1].spent, c), c, f.val)
               IN /\ sp[c] <= MaxSpentCents * 10
                  /\ OtherWrites(other[1].limits, sp)
                  /\ last' = OtherCall("other.add_expense", "none")
  /\ UNCHANGED <<negUsed, txn, appVars>>

AliasNext ==
  \/ LoadSetLimit
  \/ LoadAddExpense
  \/ MakeData
  \/ FromDict
  \/ FromDictOther
  \/ OtherSetLimit
  \/ OtherAddExpense

AliasSpec == Init /\ [][AliasNext]_vars

(***************************************************************************)
(* The application: FinanceTracker and the files of its FileManager.       *)
(* An element of transactions is [cls, t]: the class of the object and     *)
(* its fields.  A file is None while it does not exist, else <<content>>.  *)
(***************************************************************************)
\* cap on the length of the transactions list
MaxTransactions == 2

\* the list save_transactions dumps: one record per transaction, an object
\* that is no Income being written as 'Expense'
save_transactions(ts) ==
  [i \in 1..Len(ts) |->
     [date |-> ts[i].t.date, amount |-> ts[i].t.amount,
      category |-> ts[i].t.category, description |-> ts[i].t.description,
      type |-> IF ts[i].cls = "Income" THEN "Income" ELSE "Expense"]]

\* the objects Income(...) / Expense(...) can make of a saved record
Reloaded(item) ==
  Transaction(item.date, Num(item.amount), item.category, item.description)

\* load_transactions: [] without a file; [] as well when a constructor
\* raises on some record (except Exception: return []); else the list of
\* the objects constructed from the records
load_transactions(file) ==
  IF file = None THEN <<>>
  ELSE IF \E i \in 1..Len(file[1]) : Reloaded(file[1][i]) = {} THEN <<>>
  ELSE [i \in 1..Len(file[1]) |->
          [cls |-> IF file[1][i].type = "Income" THEN "Income" ELSE "Expense",
           t |-> CHOOSE t \in Reloaded(file[1][i]) : TRUE]]

\* load_budget: Budget() without a file, else a Budget filled by from_dict
load_budget(file) ==
  IF file = None THEN [limits |-> EmptyDict, spent |-> EmptyDict]
  ELSE [limits |-> from_dict(file[1]).limits, spent |-> from_dict(file[1]).spent]

\* the two loops of load_data: every Expense of the loaded list gets a
\* spent entry and has its amount added to it
RECURSIVE ReAdd(_, _)
ReAdd(sp, ts) ==
  IF ts = <<>> THEN sp
  ELSE IF Head(ts).cls = "Expense"
       THEN ReAdd(Accumulate(SeedSpent(sp, Head(ts).t.category),
                             Head(ts).t.category, Head(ts).t.amount),
                  Tail(ts))
       ELSE ReAdd(sp, Tail(ts))

\* the record of a handler's run: what the user typed and the exception the
\* handler caught ("none" when it ran to its end)
Handled(op, choice, category, arg, raised) ==
  [op |-> op, choice |-> choice, category |-> category, arg |-> arg,
   raised |-> raised]

\* datetime.now().strftime('%Y-%m-%d')
Today == <<"2", "0", "2", "4", "-", "1", "2", "-", "3", "1">>

\* what the user types: menu choice, date (empty for today), amount,
\* category, budget limit
Choices == {"1", "2", "3"}

DateInputs == {<<>>, <<"2", "0", "2", "4", "-", "1", "3", "-", "0", "1">>}

AmountInputs == {Num(10), Num(4), NotANumber}

CategoryInputs == {<<"a">>, <<"A", " ">>}

LimitInputs == {Num(12), NotANumber}

\* save_data: both files are rewritten from the given list and Budget
SaveData(ts, lim, sp) ==
  /\ txnFile' = Some(save_transactions(ts))
  /\ budgetFile' = Some([k \in {"limits", "spent"} |->
                           IF k = "limits" THEN lim ELSE sp])

\* self.budget.limits[category] raises KeyError
LimitLookupFails(lim, category) == category \notin DOMAIN lim

\* FinanceTracker.add_transaction with the user's inputs
add_transaction(choice, dateIn, amount, categoryIn) ==
  LET date == IF strip(dateIn) = <<>> THEN Today ELSE strip(dateIn)
      category == strip(categoryIn)
      description == <<>>
      made == Transaction(date, amount, category, description)
      c == normalize(category)
  IN /\ UNCHANGED <<negUsed, txn, snapVars>>
     /\ IF choice \notin {"1", "2"}
        THEN /\ last' = Handled("add_transaction", choice, categoryIn, amount, "none")
             /\ UNCHANGED <<limits, spent, appVars>>
        ELSE IF made = {}
        THEN /\ last' = Handled("add_transaction", choice, categoryIn, amount, "ValueError")
             /\ UNCHANGED <<limits, spent, appVars>>
        ELSE \E t \in made :
          IF choice = "1"
          THEN /\ Len(transactions) < MaxTransactions
               /\ transactions' = Append(transactions, [cls |-> "Income", t |-> t])
               /\ SaveData(transactions', limits, spent)
               /\ last' = Handled("add_transaction", choice, categoryIn, amount, "none")
               /\ UNCHANGED <<limits, spent>>
          ELSE LET sp == Accumulate(SeedSpent(spent, c), c, t.amount)
                   hasLimit == c \in DOMAIN limits
                   remaining == limits[c] - sp[c]
               IN /\ Len(transactions) < MaxTransactions
                  /\ sp[c] <= MaxSpentCents * 10
                  /\ spent' = sp
                  /\ UNCHANGED limits
                  /\ IF hasLimit /\ ~(remaining < 0) /\ LimitLookupFails(limits, category)
                     THEN /\ last' = Handled("add_transaction", choice, categoryIn,
                                             amount, "KeyError")
                          /\ UNCHANGED appVars
                     ELSE /\ transactions' =
                               Append(transactions, [cls |-> "Expense", t |-> t])
                          /\ SaveData(transactions', limits, sp)
                          /\ last' = Handled("add_transaction", choice, categoryIn,
                                             amount, "none")

\* FinanceTracker.set_budget with the user's inputs
set_budget(categoryIn, limit) ==
  LET category == strip(categoryIn)
      c == normalize(category)
      f == Float(limit)
  IN /\ UNCHANGED <<negUsed, txn, snapVars>>
     /\ IF LimitRejected(f)
        THEN /\ last' = Handled("set_budget", "4", categoryIn, limit, "ValueError")
             /\ UNCHANGED <<limits, spent, appVars>>
        ELSE \E r \in round2(f.val) :
               /\ limits' = StoreLimit(limits, c, r)
               /\ spent' = SeedSpent(spent, c)
               /\ UNCHANGED transactions
               /\ SaveData(transactions, limits', spent')
               /\ last' = Handled("set_budget", "4", categoryIn, limit, "none")

\* menu choice 9 (save_data, exit) followed by a new FinanceTracker, whose
\* __init__ runs load_data on the files just written
Restart ==
  LET loaded == load_transactions(Some(save_transactions(transactions)))
      budget == load_budget(Some(to_dict.obj))
      sp == ReAdd(budget.spent, loaded)
  IN /\ \A c \in DOMAIN sp : sp[c] <= MaxSpentCents * 10
     /\ SaveData(transactions, limits, spent)
     /\ transactions' = loaded
     /\ limits' = budget.limits
     /\ spent' = sp
     /\ last' = Handled("restart", "9", <<>>, NoneArg, "none")
     /\ UNCHANGED <<negUsed, txn, snapVars>>

AddTransaction ==
  \E choice \in Choices, dateIn \in DateInputs, amount \in AmountInputs,
     categoryIn \in CategoryInputs :
    add_transaction(choice, dateIn, amount, categoryIn)

SetBudget ==
  \E categoryIn \in CategoryInputs, limit \in LimitInputs : set_budget(categoryIn, limit)

AppNext == AddTransaction \/ SetBudget \/ Restart

AppSpec == Init /\ [][AppNext]_vars

(***************************************************************************)
(* Claims about Transaction construction, the report and the snapshots.    *)
(***************************************************************************)
\* the call of the constructor has run
Constructed == txn # None /\ txn[1].raised # "pending"

\* C11: construction with an amount that is zero, negative or non-numeric
\* fails with ValueError and yields no object, for Income and for Expense;
\* when the date is valid the error is validate_amount's.
C11_BadAmountRejected ==
  (Constructed /\ (txn[1].args.amount.kind # "num" \/ txn[1].args.amount.val <= 0))
    => /\ txn[1].raised = "ValueError"
       /\ txn[1].obj = None
       /\ txn[1].by \in {"validate_date", "validate_amount"}
       /\ validate_date(txn[1].args.date) => txn[1].by = "validate_amount"

\* C11 witness: Expense(...) with a valid date and a zero amount has failed
\* in validate_amount
C11_Witness ==
  /\ Constructed
  /\ txn[1].args.cls = "Expense"
  /\ txn[1].args.amount = Num(0)
  /\ txn[1].raised = "ValueError"
  /\ txn[1].by = "validate_amount"

\* the string is four digits, a dash, two digits, a dash and two digits
HasIsoForm(date) ==
  /\ Len(date) = 10
  /\ \A i \in {1, 2, 3, 4, 6, 7, 9, 10} : date[i] \in Digits
  /\ date[5] = "-"
  /\ date[8] = "-"

MonthLengths == <<31, 28, 31, 30, 31, 30, 31, 31, 30, 31, 30, 31>>

\* the fields of a string of that form name a day of the calendar: a month
\* 01-12 and a day of that month, February having 29 days in a leap year.
\* The calendar starts with year 1: 0000 is no year of it.
NamesRealDate(date) ==
  LET y == DigitVal(date[1]) * 1000 + DigitVal(date[2]) * 100
             + DigitVal(date[3]) * 10 + DigitVal(date[4])
      m == DigitVal(date[6]) * 10 + DigitVal(date[7])
      d == DigitVal(date[9]) * 10 + DigitVal(date[10])
      leap == IF y % 100 = 0 THEN y % 400 = 0 ELSE y % 4 = 0
  IN /\ y >= 1
     /\ m \in 1..12
     /\ d >= 1
     /\ d <= (IF m = 2 /\ leap THEN 29 ELSE MonthLengths[m])

\* C12: construction gets past the date check exactly when the date string
\* has the form YYYY-MM-DD and names a real calendar date; any other string
\* fails with validate_date's ValueError and yields no object.
C12_DateAcceptedIffReal ==
  Constructed =>
    LET real == HasIsoForm(txn[1].args.date) /\ NamesRealDate(txn[1].args.date)
    IN /\ (txn[1].by # "validate_date") = real
       /\ ~real => (txn[1].raised = "ValueError" /\ txn[1].obj = None)

\* C12 witness: the leap day 2000-02-29 has been accepted
C12_Witness ==
  /\ Constructed
  /\ txn[1].args.date = <<"2","0","0","0","-","0","2","-","2","9">>
  /\ txn[1].raised = "none"
  /\ txn[1].obj[1].date = txn[1].args.date

\* k is raw without its leading and trailing whitespace
TrimmedFormOf(raw, k) ==
  /\ IsTrimmed(k)
  /\ \E i \in 1..(Len(raw) + 1) :
       /\ i + Len(k) - 1 <= Len(raw)
       /\ \A p \in 1..Len(raw) :
            IF p >= i /\ p < i + Len(k)
            THEN k[p - i + 1] = raw[p]
            ELSE raw[p] \in Whitespace

\* C13: with an amount > 0 and a real calendar date construction succeeds
\* and stores the date unchanged, the amount rounded to 2 decimals, the
\* category trimmed and lower-cased (an empty result included) and the
\* description trimmed.
C13_ValidInputStored ==
  (/\ Constructed
   /\ txn[1].args.amount.kind = "num"
   /\ txn[1].args.amount.val > 0
   /\ HasIsoForm(txn[1].args.date)
   /\ NamesRealDate(txn[1].args.date))
    => /\ txn[1].raised = "none"
       /\ txn[1].obj # None
       /\ txn[1].obj[1].date = txn[1].args.date
       /\ IsRounded2(txn[1].args.amount.val, txn[1].obj[1].amount)
       /\ NormalFormOf(txn[1].args.category, txn[1].obj[1].category)
       /\ TrimmedFormOf(txn[1].args.description, txn[1].obj[1].description)

\* C13 witness: Expense("2024-02-29", 0.012, " ", "A a ") has been built
\* with amount 0.01, an empty category and the description "A a"
C13_Witness ==
  /\ Constructed
  /\ txn[1].args.cls = "Expense"
  /\ txn[1].args.amount = Num(12)
  /\ txn[1].args.category = <<" ">>
  /\ txn[1].args.description = <<"A", " ", "a", " ">>
  /\ txn[1].raised = "none"
  /\ txn[1].obj[1].amount = 10
  /\ txn[1].obj[1].category = <<>>
  /\ txn[1].obj[1].description = <<"A", " ", "a">>

\* C14: get_budget_report has exactly one record per category with a
\* configured limit, in ascending order of category name, each equal to
\* get_status of its category; a category with spending but no limit is not
\* in it.
C14_ReportPerLimitSorted ==
  LET report == get_budget_report
  IN /\ Len(report) = Cardinality(DOMAIN limits)
     /\ \A c \in DOMAIN limits : \E i \in 1..Len(report) : report[i].category = c
     /\ \A i \in 1..Len(report) :
          /\ report[i].category \in DOMAIN limits
          /\ get_status(report[i].category) = Some(report[i])
     /\ \A i, j \in 1..Len(report) :
          i < j => StrLess(report[i].category, report[j].category)
     /\ \A c \in (DOMAIN spent) \ (DOMAIN limits) :
          \A i \in 1..Len(report) : report[i].category # c

\* C14 witness: limits on "a" and "b" are reported in that order
C14_Witness ==
  /\ DOMAIN limits = {<<"a">>, <<"b">>}
  /\ Len(get_budget_report) = 2
  /\ get_budget_report[1].category = <<"a">>
  /\ get_budget_report[2].category = <<"b">>

\* C14 witness of the exclusion: "b" has spending and no limit, and the
\* report holds the one record of "a"
C14_SpendingOnlyLeftOut ==
  /\ DOMAIN limits = {<<"a">>}
  /\ <<"b">> \in DOMAIN spent
  /\ spent[<<"b">>] > 0
  /\ Len(get_budget_report) = 1
  /\ get_budget_report[1].category = <<"a">>

\* C15: in every state reached by set_limit and add_expense, from_dict of
\* the to_dict snapshot gives limits and spent equal to the Budget's.
C15_RoundTrip ==
  /\ from_dict(to_dict.obj).limits = limits
  /\ from_dict(to_dict.obj).spent = spent

\* C15 witness: a Budget with a limit on "a", spending on "a" and "b", whose
\* snapshot loads to the same two mappings
C15_Witness ==
  /\ DOMAIN limits = {<<"a">>}
  /\ DOMAIN spent = {<<"a">>, <<"b">>}
  /\ spent[<<"a">>] > 0
  /\ from_dict(to_dict.obj) =
       [limits |-> limits, spent |-> spent, sameLimits |-> TRUE, sameSpent |-> TRUE]

\* C16: the dict returned by to_dict is independent of the Budget: a step
\* in which the caller adds, changes or removes an entry of the snapshot's
\* limits or spent leaves the Budget's limits and spent as they were, and a
\* set_limit or add_expense step leaves a snapshot taken earlier as it was.
C16_SnapshotIndependent ==
  [][/\ (last'.op = "edit_snapshot") => (limits' = limits /\ spent' = spent)
     /\ (last'.op \in {"set_limit", "add_expense"}) => (data' = data)]_vars

\* C16 witness: a snapshot was taken and edited (it has a limit on "z" the
\* Budget lacks), and a later set_limit gave the Budget a limit on "b" that
\* the snapshot lacks
C16_Witness ==
  /\ data # None
  /\ last.op = "set_limit"
  /\ last.raised = "none"
  /\ <<"z">> \in DOMAIN data[1]["limits"]
  /\ <<"z">> \notin DOMAIN limits
  /\ <<"b">> \in DOMAIN limits
  /\ <<"b">> \notin DOMAIN data[1]["limits"]

\* C17: from_dict never raises and leaves the Budget with exactly the
\* snapshot's 'limits' and 'spent' mappings, an empty mapping standing in
\* for a missing one, so that no prior entry survives; a zero or negative
\* limit is loaded as it is, and get_status reports percentage 0 for it.
C17_FromDictReplaces ==
  /\ [][(last'.op = "from_dict") =>
          /\ last'.raised = "none"
          /\ limits' = (IF "limits" \in DOMAIN data[1]
                        THEN data[1]["limits"] ELSE EmptyDict)
          /\ spent' = (IF "spent" \in DOMAIN data[1]
                       THEN data[1]["spent"] ELSE EmptyDict)]_vars
  /\ [](\A c \in DOMAIN limits :
          limits[c] <= 0 => get_status(c)[1].percentage = [num |-> 0, den |-> 1])

\* C17 witness: from_dict has loaded a data object without 'spent' whose
\* limit on "a" is -0.01: spent is empty, no limit on "b" is left, and the
\* status of "a" has percentage 0
C17_Witness ==
  /\ last.op = "from_dict"
  /\ data # None
  /\ "spent" \notin DOMAIN data[1]
  /\ spent = EmptyDict
  /\ DOMAIN limits = {<<"a">>}
  /\ limits[<<"a">>] = -10
  /\ get_status(<<"a">>)[1].percentage = [num |-> 0, den |-> 1]

(***************************************************************************)
(* Claims about the application.                                           *)
(***************************************************************************)
\* C18: load_transactions without a file gives the empty list, and a list
\* written by save_transactions is read back with the same length and
\* order, each element with the kind, date, amount, category and
\* description of the one saved.
C18_SaveLoadRoundTrip ==
  LET back == load_transactions(Some(save_transactions(transactions)))
  IN /\ load_transactions(None) = <<>>
     /\ Len(back) = Len(transactions)
     /\ \A i \in 1..Len(transactions) :
          /\ i <= Len(back)
          /\ back[i].cls = transactions[i].cls
          /\ back[i].t.date = transactions[i].t.date
          /\ back[i].t.amount = transactions[i].t.amount
          /\ back[i].t.category = transactions[i].t.category
          /\ back[i].t.description = transactions[i].t.description

\* the sum of the amounts of the Expense transactions of category c
RECURSIVE ExpenseTotal(_, _)
ExpenseTotal(ts, c) ==
  IF ts = <<>> THEN 0
  ELSE (IF Head(ts).cls = "Expense" /\ Head(ts).t.category = c
        THEN Head(ts).t.amount ELSE 0) + ExpenseTotal(Tail(ts), c)

\* C19: from empty storage, after any add_transaction and set_budget calls
\* and restarts, budget.spent of every category equals the sum of the
\* amounts of the Expense transactions of that category in the list.
C19_SpentIsSumOfExpenses ==
  \A c \in (DOMAIN spent) \cup {transactions[i].t.category : i \in 1..Len(transactions)} :
    Get(spent, c, 0) = ExpenseTotal(transactions, c)

\* C20: an add_transaction run for an Expense either adds the amount to
\* budget.spent, appends the Expense to transactions and saves the list, or
\* leaves budget.spent and transactions as they were.
C20_AddExpenseAllOrNothing ==
  [][(last'.op = "add_transaction" /\ last'.choice = "2") =>
       \/ /\ spent' = spent
          /\ transactions' = transactions
       \/ /\ Len(transactions') = Len(transactions) + 1
          /\ SubSeq(transactions', 1, Len(transactions)) = transactions
          /\ LET new == transactions'[Len(transactions')]
             IN /\ new.cls = "Expense"
                /\ new.t.category \in DOMAIN spent'
                /\ spent'[new.t.category] = Get(spent, new.t.category, 0) + new.t.amount
          /\ txnFile' = Some(save_transactions(transactions'))]_vars

(***************************************************************************)
(* Claim about from_dict and the data object.                              *)
(***************************************************************************)
\* C21: after from_dict(data), a set_limit or add_expense call on the
\* Budget leaves the data object as it was, and of two Budgets loaded from
\* the same data object a call on one leaves the other as it was.
C21_LoadedDataUntouched ==
  [][/\ (last'.op \in {"set_limit", "add_expense"})
          => (data' = data /\ other' = other)
     /\ (last'.op \in {"other.set_limit", "other.add_expense"})
          => (data' = data /\ limits' = limits /\ spent' = spent)]_vars

====
